---- MODULE Spec2Model ----
(***************************************************************************)
(* Model of the sync-session orchestration of the ws-client package:       *)
(* class SyncedDB (constructor, start, stop), createSyncedDB,              *)
(* createSyncedDB_Exclusive (the navigator.locks based coordinator) and     *)
(* startSync.  One request = one call of createSyncedDB_Exclusive or of     *)
(* createSyncedDB; every request runs in one execution context (tab or     *)
(* worker).  Each context has its own module instance, hence its own       *)
(* `locks` map; the navigator.locks manager is shared by all contexts.     *)
(***************************************************************************)
EXTENDS Integers, Sequences, FiniteSets, TLC

\* ------------------------------------------------------------------ bounds
MaxReqs == 3        \* calls of createSyncedDB_Exclusive / createSyncedDB
MaxFairReqs == 2    \* calls of createSyncedDB_Exclusive followed under fair scheduling
MaxStopCalls == 2   \* calls of SyncedDB.stop() on one session
MaxStarts == 2      \* calls of SyncedDB.start() on one session
MaxStreamStarts == 1    \* calls of SyncedDB.start() on a session whose InboundStream is followed
MaxVersion == 1     \* changes of a peer that writers other than the session merge into a database
MaxBatches == 1     \* messages a peer pushes through one transport slot
MaxChangeVersion == 3   \* change versions of a site are 1..MaxChangeVersion
MaxReceives == 2    \* batches handed to one InboundStream
MaxSent == 3        \* batches one OutboundStream sends

Contexts == {"tabA", "tabB"}
Names == {"db1"}
Reqs == 1..MaxReqs
NoReq == 0
NoCtx == "none"
NoName == "none"
SchemaVersions == {1, 2}
Peers == {"p1", "p2"}
ChangeVersions == 1..MaxChangeVersion
Versions == 0..MaxChangeVersion
Frontiers == [Peers -> Versions]
NoFrontier == [p \in Peers |-> 0]
Unread == [p \in Peers |-> -1]
NoBatch == [req |-> 0, peer |-> "none", from |-> 0, to |-> 0, ok |-> FALSE]
NoReset == [at |-> -1, to |-> 0]

VARIABLES
    alive,          \* [Contexts -> BOOLEAN]   the context has not died
    locks,          \* [Contexts -> [Names -> Reqs \cup {NoReq}]]  module-level Map: name -> releaser (of which call's hold)
    holder,         \* [Names -> Reqs \cup {NoReq}]   navigator.locks: the request whose callback's promise is pending
    rctx,           \* [Reqs -> Contexts \cup {NoCtx}]
    rname,          \* [Reqs -> Names \cup {NoName}]
    phase,          \* [Reqs -> {"none","waiting","holding","released","skipped","direct"}]
    stopRequested,  \* [Reqs -> BOOLEAN]   closure variable stopRequested
    holdResolved,   \* [Reqs -> BOOLEAN]   the promise `hold` of the call is resolved
    outerDb,        \* [Reqs -> BOOLEAN]   closure variable db of createSyncedDB_Exclusive is non-null
    withdrawn,      \* [Reqs -> BOOLEAN]   history: the controller's stop() was called while the request waited
    sess,           \* [Reqs -> {"none","dbProvider","constructed","failed"}]  createSyncedDB's progress
    wired,          \* [Reqs -> BOOLEAN]   the transport's callback slots point at the streams
    startPc,        \* [Reqs -> Seq({"getLastSeens","getSchema","done","failed"})]  position of every call of SyncedDB.start, in call order
    startCb,        \* [Reqs -> {"none","false","true"}]  what startSync's cb returned
    lastSeens,      \* [Reqs -> Seq(Frontiers \cup {Unread})]  local const lastSeens of every call of start()
    schemaRead,     \* [Reqs -> Seq(SchemaVersions \cup {0})]  local const schemaVersion of every call of start()
    calls,          \* [Reqs -> Seq(STRING)]  calls start() made on db, inbound stream and transport
    prepared,       \* [Reqs -> Seq(Frontiers)]  arguments of InboundStream.prepare
    announced,      \* [Reqs -> Seq(message)]  arguments of Transport.announcePresence
    rejection,      \* [Reqs -> {"none","caller","unhandled"}]  where a rejected promise of the request ended
    outStopCalls,   \* [Reqs -> Nat]  calls of OutboundStream.stop
    closeCalls,     \* [Reqs -> Nat]  calls of Transport.close
    stopReturned,   \* [Reqs -> Seq(BOOLEAN)]  return values of SyncedDB.stop
    dbLastSeens,    \* [Names -> Frontiers]  what db.getLastSeens() resolves to: the last-seen version of every peer
    dbSchema,       \* [Names -> SchemaVersions]  what db.getSchemaNameAndVersion() resolves to
    batchesIn,      \* [Reqs -> Nat]  batches routed to InboundStream.receiveChanges
    streamReqs,     \* [Reqs -> Nat]  start-streaming / reset requests routed to OutboundStream
    frontier,       \* [Reqs -> Frontiers]  the last-seen version per peer the session's InboundStream keeps
    dbHas,          \* [Names -> [Peers -> SUBSET ChangeVersions]]  changes of the peer that inbound streams applied to the database
    confirmed,      \* [Reqs -> Frontiers]  final version of the last batch of the peer the database handle confirmed to the session's InboundStream (0: none yet)
    resendReqs,     \* [Reqs -> Seq([peer, since])]  resend requests the session's InboundStream sent through the transport
    received,       \* Nat  calls of InboundStream.receiveChanges
    lastBatch,      \* the session and the batch of the last receiveChanges call (ok: the database handle accepts it)
    outState,       \* {"idle","streaming","stopped"}  OutboundStream
    outCursor,      \* 0..MaxChangeVersion+1  version the next batch of OutboundStream starts at
    outSent,        \* Seq([from, to])  batches OutboundStream sent through the transport
    resetMark       \* [at, to]  the last resetStream: number of batches sent before it, newFromVersion

vars == <<alive, locks, holder, rctx, rname, phase, stopRequested, holdResolved,
          outerDb, withdrawn, sess, wired, startPc, startCb, lastSeens, schemaRead,
          calls, prepared,
          announced, rejection, outStopCalls, closeCalls, stopReturned, dbLastSeens,
          dbSchema, batchesIn, streamReqs, frontier, dbHas, confirmed,
          resendReqs, received, lastBatch, outState, outCursor, outSent, resetMark>>
coordVars == <<alive, locks, holder, stopRequested, holdResolved, outerDb, withdrawn>>
identVars == <<rctx, rname>>
startVars == <<startPc, startCb, lastSeens, schemaRead, calls, prepared, announced,
               rejection>>
stopVars == <<outStopCalls, closeCalls, stopReturned>>
dbVars == <<dbLastSeens, dbSchema>>
peerVars == <<batchesIn, streamReqs>>
inVars == <<frontier, dbHas, confirmed, resendReqs, received, lastBatch>>
outVars == <<outState, outCursor, outSent, resetMark>>
streamVars == <<inVars, outVars>>
sessionVars == <<coordVars, identVars, phase, sess, wired, startVars, stopVars, dbVars,
                 peerVars>>

\* ------------------------------------------------------------ pure helpers

\* The contexts are alike, so they are told apart by their first call: tabB makes
\* calls only after tabA has made one.
MayCall(c) == c = "tabA" \/ \E r \in Reqs : rctx[r] = "tabA"

\* The next unused request id (requests are numbered in creation order).
Created == {r \in Reqs : phase[r] # "none"}
NextReq == Cardinality(Created) + 1

\* db.siteid of the database handle of a name.
SiteIdOf(n) == <<"site", n>>
SchemaNameOf(n) == <<"schema", n>>

\* The request was made and its context has not died.
Alive(r) == rctx[r] # NoCtx /\ alive[rctx[r]]

Closed(r) == closeCalls[r] > 0
OutboundStopped(r) == outStopCalls[r] > 0

\* Variants of the grant callback's test: one that never looks at stopRequested, one
\* that tests it the wrong way round.
GrantIgnoresStop(sr) == TRUE
GrantInverted(sr) == sr

\* part_001:89-91  the grant callback goes on to startSync iff stop() was not called yet.
GrantStartsSync(sr) == ~sr

\* Variant of cb that does not look at stopRequested.
CbResultAlwaysTrue(sr) == TRUE

\* Variant of cb that returns false where it should return true.
CbResultInverted(sr) == sr

\* part_001:93-97  what startSync's cb returns.
CbResult(sr) == ~sr

\* part_001:96  `db = db` inside (db: ISyncedDB) => {...}: the parameter shadows the
\* closure variable, so the assignment writes the parameter to itself and the closure
\* variable keeps its value (outer: closure variable is non-null).
CbAssignDb(outer) == outer

\* part_001:105  the releaser stop() finds: whatever the context's map holds for the name.
ReleaserOf(c, n) == locks[c][n]

\* Variant of start() that reads the frontier again where it calls prepare.
PrepareArgReRead(r, i) == dbLastSeens[rname[r]]

\* part_001:40  the argument the i-th call of start() passes to InboundStream.prepare.
PrepareArg(r, i) == lastSeens[r][i]

\* part_001:42-48  the message the i-th call of start() passes to
\* Transport.announcePresence.
AnnounceMsg(r, i, schemaName, schemaVersion) ==
    [tag |-> "AnnouncePresence",
     lastSeens |-> lastSeens[r][i],
     schemaName |-> schemaName,
     schemaVersion |-> schemaVersion,
     sender |-> SiteIdOf(rname[r])]

\* part_001:54  SyncedDB.stop's return value.
StopResult == TRUE

\* part_001:26-29  the constructor leaves the transport's slots pointing at the streams.
ConstructorWires == TRUE

\* ------------------------------------------------------------------- Init
Init ==
    /\ alive = [c \in Contexts |-> TRUE]
    /\ locks = [c \in Contexts |-> [n \in Names |-> NoReq]]
    /\ holder = [n \in Names |-> NoReq]
    /\ rctx = [r \in Reqs |-> NoCtx]
    /\ rname = [r \in Reqs |-> NoName]
    /\ phase = [r \in Reqs |-> "none"]
    /\ stopRequested = [r \in Reqs |-> FALSE]
    /\ holdResolved = [r \in Reqs |-> FALSE]
    /\ outerDb = [r \in Reqs |-> FALSE]
    /\ withdrawn = [r \in Reqs |-> FALSE]
    /\ sess = [r \in Reqs |-> "none"]
    /\ wired = [r \in Reqs |-> FALSE]
    /\ startPc = [r \in Reqs |-> <<>>]
    /\ startCb = [r \in Reqs |-> "none"]
    /\ lastSeens = [r \in Reqs |-> <<>>]
    /\ schemaRead = [r \in Reqs |-> <<>>]
    /\ calls = [r \in Reqs |-> <<>>]
    /\ prepared = [r \in Reqs |-> <<>>]
    /\ announced = [r \in Reqs |-> <<>>]
    /\ rejection = [r \in Reqs |-> "none"]
    /\ outStopCalls = [r \in Reqs |-> 0]
    /\ closeCalls = [r \in Reqs |-> 0]
    /\ stopReturned = [r \in Reqs |-> <<>>]
    /\ dbLastSeens = [n \in Names |-> NoFrontier]
    /\ dbSchema = [n \in Names |-> 1]
    /\ batchesIn = [r \in Reqs |-> 0]
    /\ streamReqs = [r \in Reqs |-> 0]
    /\ frontier = [r \in Reqs |-> NoFrontier]
    /\ dbHas = [n \in Names |-> [p \in Peers |-> {}]]
    /\ confirmed = [r \in Reqs |-> NoFrontier]
    /\ resendReqs = [r \in Reqs |-> <<>>]
    /\ received = 0
    /\ lastBatch = NoBatch
    /\ outState = "idle"
    /\ outCursor = 0
    /\ outSent = <<>>
    /\ resetMark = NoReset

\* ---------------------------------------------------------------- SyncedDB

\* part_001:35-36  start() is entered (nothing in it tells whether it was called
\* before): db.getLastSeens() is called and this call of start() suspends.
SyncedDB_start(r) ==
    /\ startPc' = [startPc EXCEPT ![r] = Append(@, "getLastSeens")]
    /\ lastSeens' = [lastSeens EXCEPT ![r] = Append(@, Unread)]
    /\ schemaRead' = [schemaRead EXCEPT ![r] = Append(@, 0)]
    /\ calls' = [calls EXCEPT ![r] = Append(@, "getLastSeens")]
    /\ UNCHANGED <<prepared, announced, rejection>>

\* part_001:51-55  stop(): outboundStream.stop(); transport.close(); return true.
SyncedDB_stop(r) ==
    /\ outStopCalls' = [outStopCalls EXCEPT ![r] = @ + 1]
    /\ closeCalls' = [closeCalls EXCEPT ![r] = @ + 1]
    /\ stopReturned' = [stopReturned EXCEPT ![r] = Append(@, StopResult)]

\* part_001:36-38  getLastSeens() resolves for a call of start(): it resumes, keeps
\* the value and calls getSchemaNameAndVersion().
StartGotLastSeens(r) ==
    /\ Alive(r)
    /\ \E i \in DOMAIN startPc[r] :
          /\ startPc[r][i] = "getLastSeens"
          /\ lastSeens' = [lastSeens EXCEPT ![r][i] = dbLastSeens[rname[r]]]
          /\ startPc' = [startPc EXCEPT ![r][i] = "getSchema"]
    /\ calls' = [calls EXCEPT ![r] = Append(@, "getSchemaNameAndVersion")]
    /\ UNCHANGED <<coordVars, identVars, phase, sess, wired, startCb, schemaRead,
                   prepared, announced, rejection, stopVars, dbVars, peerVars>>
    /\ UNCHANGED streamVars

\* spec 4.2  prepare(frontier) seeds the stream's expectation state: the stream's
\* frontier is what it is given (streams/InboundStream.js is not part of the sources
\* at hand).
FrontierSeeded(fr, arg) == arg

\* part_001:37-49  getSchemaNameAndVersion() resolves for a call of start(): it
\* resumes, calls inboundStream.prepare(lastSeens), which seeds the stream's
\* frontier, and transport.announcePresence({...}), and ends.
StartGotSchema(r) ==
    /\ Alive(r)
    /\ \E i \in DOMAIN startPc[r] :
          /\ startPc[r][i] = "getSchema"
          /\ schemaRead' = [schemaRead EXCEPT ![r][i] = dbSchema[rname[r]]]
          /\ prepared' = [prepared EXCEPT ![r] = Append(@, PrepareArg(r, i))]
          /\ frontier' = [frontier EXCEPT ![r] = FrontierSeeded(@, PrepareArg(r, i))]
          /\ announced' = [announced EXCEPT ![r] =
                Append(@, AnnounceMsg(r, i, SchemaNameOf(rname[r]), dbSchema[rname[r]]))]
          /\ startPc' = [startPc EXCEPT ![r][i] = "done"]
    /\ calls' = [calls EXCEPT ![r] = @ \o <<"prepare", "announcePresence">>]
    /\ UNCHANGED <<coordVars, identVars, phase, sess, wired, startCb, lastSeens,
                   rejection, stopVars, dbVars, peerVars>>
    /\ UNCHANGED <<dbHas, confirmed, resendReqs, received, lastBatch, outVars>>

\* ------------------------------------------------- createSyncedDB_Exclusive

\* part_001:74-87,102-113  a context calls createSyncedDB_Exclusive(n, ...): the closure
\* variables are set up, the releaser is stored under the name in the context's map
\* (replacing what was there), the lock is requested and the controller is returned.
CreateExclusive(c, n) ==
    /\ alive[c]
    /\ MayCall(c)
    /\ NextReq <= MaxReqs
    /\ LET r == NextReq IN
        /\ rctx' = [rctx EXCEPT ![r] = c]
        /\ rname' = [rname EXCEPT ![r] = n]
        /\ phase' = [phase EXCEPT ![r] = "waiting"]
        /\ locks' = [locks EXCEPT ![c][n] = r]
    /\ UNCHANGED <<alive, holder, stopRequested, holdResolved, outerDb, withdrawn,
                   sess, wired, startVars, stopVars, dbVars, peerVars>>
    /\ UNCHANGED streamVars

\* part_001:74-87  one of the first MaxFairReqs calls.
CreateExclusiveFew(c, n) ==
    /\ NextReq <= MaxFairReqs
    /\ CreateExclusive(c, n)

\* part_001:74-87  the first call a context makes for a name.
CreateExclusiveOnce(c, n) ==
    /\ \A q \in Reqs : ~(rctx[q] = c /\ rname[q] = n)
    /\ CreateExclusive(c, n)

\* part_001:88-100  navigator.locks grants the lock of the name to a waiting request
\* and runs its callback: a withdrawn request returns at once (the lock is not kept);
\* otherwise startSync runs createSyncedDB up to `await config.dbProvider(dbname)` and
\* the callback returns hold: the lock is kept while hold is pending, and is given
\* back at once when hold was resolved before the grant.
Grant(r) ==
    /\ phase[r] = "waiting"
    /\ Alive(r)
    /\ holder[rname[r]] = NoReq
    /\ IF GrantStartsSync(stopRequested[r])
         THEN /\ sess' = [sess EXCEPT ![r] = "dbProvider"]
              /\ IF holdResolved[r]
                   THEN /\ phase' = [phase EXCEPT ![r] = "released"]
                        /\ UNCHANGED holder
                   ELSE /\ phase' = [phase EXCEPT ![r] = "holding"]
                        /\ holder' = [holder EXCEPT ![rname[r]] = r]
         ELSE /\ phase' = [phase EXCEPT ![r] = "skipped"]
              /\ UNCHANGED <<holder, sess>>
    /\ UNCHANGED <<alive, locks, stopRequested, holdResolved, outerDb, withdrawn,
                   identVars, wired, startVars, stopVars, dbVars, peerVars>>
    /\ UNCHANGED streamVars

\* part_001:62-64  config.dbProvider resolves: createSyncedDB resumes, the transport
\* and the SyncedDB are constructed (the constructor wires the transport's slots) and
\* createSyncedDB's promise resolves.  What waits for that promise (the direct caller,
\* or the then-callback of startSync) runs in a later job.
ConstructDone(r) ==
    /\ sess[r] = "dbProvider"
    /\ Alive(r)
    /\ sess' = [sess EXCEPT ![r] = "constructed"]
    /\ wired' = [wired EXCEPT ![r] = ConstructorWires]
    /\ UNCHANGED <<coordVars, identVars, phase, startVars, stopVars, dbVars, peerVars>>
    /\ UNCHANGED streamVars

\* part_001:121-125  the then-callback of startSync runs for an exclusive request
\* whose createSyncedDB resolved: it calls cb (which reads stopRequested as it is now)
\* and, if cb returns true, db.start().
StartSyncThen(r) ==
    /\ phase[r] \in {"holding", "released"}
    /\ sess[r] = "constructed"
    /\ startCb[r] = "none"
    /\ Alive(r)
    /\ startCb' = [startCb EXCEPT ![r] =
          IF CbResult(stopRequested[r]) THEN "true" ELSE "false"]
    /\ IF stopRequested[r]
         THEN UNCHANGED outerDb
         ELSE outerDb' = [outerDb EXCEPT ![r] = CbAssignDb(@)]
    /\ IF CbResult(stopRequested[r])
         THEN SyncedDB_start(r)
         ELSE UNCHANGED <<startPc, lastSeens, schemaRead, calls, prepared,
                          announced, rejection>>
    /\ UNCHANGED <<alive, locks, holder, stopRequested, holdResolved, withdrawn,
                   identVars, phase, sess, wired, stopVars, dbVars, peerVars>>
    /\ UNCHANGED streamVars

\* part_001:103-112  the controller's stop(): stopRequested = true; the releaser found
\* in the context's map under the name is called (it resolves the hold of the call
\* that stored it, and navigator.locks releases a lock kept by that hold); db.stop()
\* if the closure's db is set.
Stop(r) ==
    /\ phase[r] \in {"waiting", "holding", "released", "skipped"}
    /\ Alive(r)
    /\ outerDb[r] => closeCalls[r] < MaxStopCalls
    /\ stopRequested' = [stopRequested EXCEPT ![r] = TRUE]
    /\ withdrawn' = [withdrawn EXCEPT ![r] = @ \/ phase[r] = "waiting"]
    /\ LET rel == ReleaserOf(rctx[r], rname[r]) IN
         IF rel # NoReq
           THEN /\ holdResolved' = [holdResolved EXCEPT ![rel] = TRUE]
                /\ IF phase[rel] = "holding"
                     THEN /\ phase' = [phase EXCEPT ![rel] = "released"]
                          /\ holder' = [holder EXCEPT ![rname[rel]] = NoReq]
                     ELSE UNCHANGED <<phase, holder>>
           ELSE UNCHANGED <<holdResolved, phase, holder>>
    /\ IF outerDb[r]
         THEN SyncedDB_stop(r)
         ELSE UNCHANGED stopVars
    /\ UNCHANGED <<alive, locks, outerDb, identVars, sess, wired, startVars, dbVars,
                   peerVars>>
    /\ UNCHANGED streamVars

\* f with the entries of context c's requests set back to v.
Cleared(f, c, v) == [r \in Reqs |-> IF rctx[r] = c THEN v ELSE f[r]]

\* part_001:67-70  a tab or worker dies: nothing of it runs any more and its heap (its
\* map, the closures of its calls, its sessions and transports) is gone; navigator.locks
\* releases the locks it held and drops its pending requests.  phase keeps what the
\* request was when its context died.
Die(c) ==
    /\ alive[c]
    /\ alive' = [alive EXCEPT ![c] = FALSE]
    /\ holder' = [n \in Names |->
          IF holder[n] # NoReq /\ rctx[holder[n]] = c THEN NoReq ELSE holder[n]]
    /\ locks' = [locks EXCEPT ![c] = [n \in Names |-> NoReq]]
    /\ stopRequested' = Cleared(stopRequested, c, FALSE)
    /\ holdResolved' = Cleared(holdResolved, c, FALSE)
    /\ outerDb' = Cleared(outerDb, c, FALSE)
    /\ withdrawn' = Cleared(withdrawn, c, FALSE)
    /\ sess' = Cleared(sess, c, "none")
    /\ wired' = Cleared(wired, c, FALSE)
    /\ startPc' = Cleared(startPc, c, <<>>)
    /\ startCb' = Cleared(startCb, c, "none")
    /\ lastSeens' = Cleared(lastSeens, c, <<>>)
    /\ schemaRead' = Cleared(schemaRead, c, <<>>)
    /\ calls' = Cleared(calls, c, <<>>)
    /\ prepared' = Cleared(prepared, c, <<>>)
    /\ announced' = Cleared(announced, c, <<>>)
    /\ rejection' = Cleared(rejection, c, "none")
    /\ outStopCalls' = Cleared(outStopCalls, c, 0)
    /\ closeCalls' = Cleared(closeCalls, c, 0)
    /\ stopReturned' = Cleared(stopReturned, c, <<>>)
    /\ batchesIn' = Cleared(batchesIn, c, 0)
    /\ streamReqs' = Cleared(streamReqs, c, 0)
    /\ frontier' = Cleared(frontier, c, NoFrontier)
    /\ confirmed' = Cleared(confirmed, c, NoFrontier)
    /\ resendReqs' = Cleared(resendReqs, c, <<>>)
    /\ UNCHANGED <<identVars, phase, dbVars>>
    /\ UNCHANGED <<dbHas, received, lastBatch, outVars>>

\* ------------------------------------------------- direct use of a SyncedDB

\* part_001:58-62  a caller calls createSyncedDB(n, ...): it suspends at dbProvider.
\* Sessions made this way share nothing, so one of them is followed.
CreateDirect(c, n) ==
    /\ alive[c]
    /\ MayCall(c)
    /\ NextReq <= MaxReqs
    /\ ~\E q \in Reqs : phase[q] = "direct"
    /\ LET r == NextReq IN
        /\ rctx' = [rctx EXCEPT ![r] = c]
        /\ rname' = [rname EXCEPT ![r] = n]
        /\ phase' = [phase EXCEPT ![r] = "direct"]
        /\ sess' = [sess EXCEPT ![r] = "dbProvider"]
    /\ UNCHANGED <<coordVars, wired, startVars, stopVars, dbVars, peerVars>>
    /\ UNCHANGED streamVars

\* part_001:35-36  the caller calls start() on the session createSyncedDB returned,
\* for the first time or again (while an earlier call is suspended, after it ended
\* or after it failed).
DirectStart(r) ==
    /\ phase[r] = "direct"
    /\ sess[r] = "constructed"
    /\ Len(startPc[r]) < MaxStarts
    /\ Alive(r)
    /\ SyncedDB_start(r)
    /\ UNCHANGED <<coordVars, identVars, phase, sess, wired, startCb, stopVars,
                   dbVars, peerVars>>
    /\ UNCHANGED streamVars

\* part_001:35-36  one of the first MaxStreamStarts calls of start() on the session.
DirectStartFew(r) ==
    /\ Len(startPc[r]) < MaxStreamStarts
    /\ DirectStart(r)

\* part_001:51-55  the caller calls stop() on the session createSyncedDB returned.
DirectStop(r) ==
    /\ phase[r] = "direct"
    /\ sess[r] = "constructed"
    /\ Alive(r)
    /\ closeCalls[r] < MaxStopCalls
    /\ SyncedDB_stop(r)
    /\ UNCHANGED <<coordVars, identVars, phase, sess, wired, startVars, dbVars,
                   peerVars>>
    /\ UNCHANGED streamVars

\* ---------------------------------------------------------------- failures

\* part_001:121-125, 58-65  who gets a rejection of the request's promises.  A direct
\* caller holds the promise of createSyncedDB and the promise of the start() it
\* called.  startSync chains .then(...) on createSyncedDB's promise without a
\* rejection handler and drops the chained promise, and drops the promise of
\* db.start(): a rejection there reaches no code of the caller.
RejectionSink(direct) == IF direct THEN "caller" ELSE "unhandled"

\* part_001:62-64  config.dbProvider rejects (or config.transportProvider throws):
\* createSyncedDB's promise rejects; no SyncedDB exists and startSync's then-callback
\* does not run.
ConstructFails(r) ==
    /\ sess[r] = "dbProvider"
    /\ Alive(r)
    /\ sess' = [sess EXCEPT ![r] = "failed"]
    /\ rejection' = [rejection EXCEPT ![r] = RejectionSink(phase[r] = "direct")]
    /\ UNCHANGED <<coordVars, identVars, phase, wired, startPc, startCb, lastSeens,
                   schemaRead, calls, prepared, announced, stopVars, dbVars, peerVars>>
    /\ UNCHANGED streamVars

\* Variant of the lock callback that returns the promise of the session's start
\* instead of hold: a failed start() settles it and the lock is given back.
StartFailsReleasing(r) ==
    /\ Alive(r)
    /\ \E i \in DOMAIN startPc[r] :
          /\ startPc[r][i] \in {"getLastSeens", "getSchema"}
          /\ startPc' = [startPc EXCEPT ![r][i] = "failed"]
    /\ rejection' = [rejection EXCEPT ![r] = "unhandled"]
    /\ phase' = [phase EXCEPT ![r] = IF @ = "holding" THEN "released" ELSE @]
    /\ holder' = [n \in Names |-> IF holder[n] = r THEN NoReq ELSE holder[n]]
    /\ UNCHANGED <<alive, locks, stopRequested, holdResolved, outerDb, withdrawn,
                   identVars, sess, wired, startCb, lastSeens, schemaRead, calls,
                   prepared, announced, stopVars, dbVars, peerVars, streamVars>>

\* part_001:36-38  db.getLastSeens() or db.getSchemaNameAndVersion() rejects for a
\* call of start(): it ends there and its promise rejects; it calls neither prepare
\* nor announcePresence.
StartFails(r) ==
    /\ Alive(r)
    /\ \E i \in DOMAIN startPc[r] :
          /\ startPc[r][i] \in {"getLastSeens", "getSchema"}
          /\ startPc' = [startPc EXCEPT ![r][i] = "failed"]
    /\ rejection' = [rejection EXCEPT ![r] = RejectionSink(phase[r] = "direct")]
    /\ UNCHANGED <<coordVars, identVars, phase, sess, wired, startCb, lastSeens,
                   schemaRead, calls, prepared, announced, stopVars, dbVars, peerVars>>
    /\ UNCHANGED streamVars

\* ------------------------------------------------------------ environment

\* The database of a name moves on: another writer merges the next change of a
\* peer into it.
DbAdvance(n, p) ==
    /\ dbLastSeens[n][p] < MaxVersion
    /\ dbLastSeens' = [dbLastSeens EXCEPT ![n][p] = @ + 1]
    /\ UNCHANGED <<coordVars, identVars, phase, sess, wired, startVars, stopVars,
                   dbSchema, peerVars>>
    /\ UNCHANGED streamVars

\* The schema of a name is migrated to its next version.
DbMigrate(n) ==
    /\ dbSchema[n] = 1
    /\ dbSchema' = [dbSchema EXCEPT ![n] = 2]
    /\ UNCHANGED <<coordVars, identVars, phase, sess, wired, startVars, stopVars,
                   dbLastSeens, peerVars>>
    /\ UNCHANGED streamVars

\* part_001:26  a peer's change batch arrives on an open transport whose
\* onChangesReceived slot is set: it is handed to InboundStream.receiveChanges.
PeerSendsChanges(r) ==
    /\ wired[r]
    /\ ~Closed(r)
    /\ Alive(r)
    /\ batchesIn[r] < MaxBatches
    /\ batchesIn' = [batchesIn EXCEPT ![r] = @ + 1]
    /\ UNCHANGED <<coordVars, identVars, phase, sess, wired, startVars, stopVars,
                   dbVars, streamReqs>>
    /\ UNCHANGED streamVars

\* part_001:27-29  a peer's start-streaming or reset request arrives on an open
\* transport whose slots are set: it is handed to OutboundStream.
PeerRequestsStream(r) ==
    /\ wired[r]
    /\ ~Closed(r)
    /\ Alive(r)
    /\ streamReqs[r] < MaxBatches
    /\ streamReqs' = [streamReqs EXCEPT ![r] = @ + 1]
    /\ UNCHANGED <<coordVars, identVars, phase, sess, wired, startVars, stopVars,
                   dbVars, batchesIn>>
    /\ UNCHANGED streamVars

\* ------------------------------------------------------------- InboundStream
\* streams/InboundStream.js is not part of the sources at hand: the stream is modelled
\* from its contract (spec 4.2).  A batch carries the changes from..to of one peer.

\* Variant: a stream that takes a batch beyond frontier+1 as the next one.
InboundVerdictNoGapTest(fr, from, to) == IF to <= fr THEN "duplicate" ELSE "apply"

\* spec 4.2 (a)-(c)  what receiveChanges does with a batch from..to at frontier fr.
InboundVerdict(fr, from, to) ==
    IF from > fr + 1 THEN "gap"
    ELSE IF to <= fr THEN "duplicate"
    ELSE "apply"

\* spec 4.2  the frontier after the database handle answered an apply (ok: confirmed).
FrontierAfter(fr, to, ok) == IF ok THEN to ELSE fr

\* part_001:26, spec 4.2  the transport of session r hands a batch of peer p to the
\* slot the constructor set, receiveChanges of r's InboundStream; ok tells whether the
\* database handle accepts the changes it is given.  An accepted batch is in the
\* database, last-seen version included.
InReceiveChanges(r, p, from, to, ok) ==
    /\ wired[r]
    /\ ~Closed(r)
    /\ Alive(r)
    /\ received < MaxReceives
    /\ from <= to
    /\ received' = received + 1
    /\ lastBatch' = [req |-> r, peer |-> p, from |-> from, to |-> to, ok |-> ok]
    /\ LET verdict == InboundVerdict(frontier[r][p], from, to) IN
         IF verdict = "gap"
           THEN /\ resendReqs' = [resendReqs EXCEPT ![r] =
                      Append(@, [peer |-> p, since |-> frontier[r][p]])]
                /\ UNCHANGED <<frontier, dbHas, confirmed, dbLastSeens>>
           ELSE IF verdict = "duplicate"
             THEN UNCHANGED <<frontier, dbHas, confirmed, dbLastSeens, resendReqs>>
             ELSE /\ dbHas' = [dbHas EXCEPT ![rname[r]][p] =
                        IF ok THEN @ \cup ((frontier[r][p] + 1)..to) ELSE @]
                  /\ dbLastSeens' = [dbLastSeens EXCEPT ![rname[r]][p] =
                        IF ok THEN to ELSE @]
                  /\ confirmed' = [confirmed EXCEPT ![r][p] = IF ok THEN to ELSE @]
                  /\ frontier' = [frontier EXCEPT ![r][p] = FrontierAfter(@, to, ok)]
                  /\ UNCHANGED resendReqs
    /\ UNCHANGED <<coordVars, identVars, phase, sess, wired, startVars, stopVars,
                   dbSchema, peerVars, outVars>>

\* ------------------------------------------------------------ OutboundStream
\* streams/OutboundStream.js is not part of the sources at hand: the stream is
\* modelled from its contract (spec 4.3).  The database handle has the local changes
\* 1..MaxChangeVersion; a batch carries the changes from..to.

\* Variant: a stream that never goes back on a reset.
CursorAfterResetForwardOnly(cur, newFromVersion) ==
    IF newFromVersion > cur THEN newFromVersion ELSE cur

\* spec 4.3  resetStream(newFromVersion): the production position is discarded.
CursorAfterReset(cur, newFromVersion) == newFromVersion

\* spec 4.3  startStreaming(fromVersion, peer): production begins at fromVersion.
OutStartStreaming(fromVersion) ==
    /\ outState = "idle"
    /\ outState' = "streaming"
    /\ outCursor' = fromVersion
    /\ UNCHANGED <<outSent, resetMark, inVars, sessionVars>>

\* spec 4.3  the stream sends its next batch: the size following changes of the
\* database handle, in version order, from its position on.
OutSendBatch(size) ==
    /\ outState = "streaming"
    /\ Len(outSent) < MaxSent
    /\ outCursor + size - 1 <= MaxChangeVersion
    /\ outSent' = Append(outSent, [from |-> outCursor, to |-> outCursor + size - 1])
    /\ outCursor' = outCursor + size
    /\ UNCHANGED <<outState, resetMark, inVars, sessionVars>>

\* spec 4.3  the transport delivers a reset: resetStream(newFromVersion).
OutResetStream(newFromVersion) ==
    /\ outState = "streaming"
    /\ outCursor' = CursorAfterReset(outCursor, newFromVersion)
    /\ resetMark' = [at |-> Len(outSent), to |-> newFromVersion]
    /\ UNCHANGED <<outState, outSent, inVars, sessionVars>>

\* spec 4.3  stop(): production ends.
OutStop ==
    /\ outState # "stopped"
    /\ outState' = "stopped"
    /\ UNCHANGED <<outCursor, outSent, resetMark, inVars, sessionVars>>

\* ---------------------------------------------------------- specifications

\* The exclusivity coordinator: contexts calling createSyncedDB_Exclusive.
Next ==
    \/ \E c \in Contexts, n \in Names : CreateExclusive(c, n)
    \/ \E r \in Reqs : Grant(r)
    \/ \E r \in Reqs : ConstructDone(r)
    \/ \E r \in Reqs : StartSyncThen(r)
    \/ \E r \in Reqs : StartGotLastSeens(r)
    \/ \E r \in Reqs : StartGotSchema(r)
    \/ \E r \in Reqs : Stop(r)
    \/ \E c \in Contexts : Die(c)

Spec == Init /\ [][Next]_vars

\* What start() does with the frontier it reads does not depend on which peer's
\* entry another writer moved, so the other writers' changes are those of one peer.
FollowedPeer == "p1"

\* A session created with createSyncedDB and driven by its caller, with the database
\* and the peers moving on around it.
SessionNext ==
    \/ \E c \in Contexts, n \in Names : CreateDirect(c, n)
    \/ \E r \in Reqs : ConstructDone(r)
    \/ \E r \in Reqs : DirectStart(r)
    \/ \E r \in Reqs : DirectStop(r)
    \/ \E r \in Reqs : StartGotLastSeens(r)
    \/ \E r \in Reqs : StartGotSchema(r)
    \/ \E n \in Names : DbAdvance(n, FollowedPeer)
    \/ \E n \in Names : DbMigrate(n)
    \/ \E r \in Reqs : PeerSendsChanges(r)
    \/ \E r \in Reqs : PeerRequestsStream(r)

SessionSpec == Init /\ [][SessionNext]_vars

\* The coordinator with what the platform schedules: the lock manager grants a free
\* lock to a pending request, pending promises (dbProvider, getLastSeens,
\* getSchemaNameAndVersion) settle, and queued jobs run.
Fairness ==
    /\ \A r \in Reqs : WF_vars(Grant(r))
    /\ \A r \in Reqs : WF_vars(ConstructDone(r))
    /\ \A r \in Reqs : WF_vars(StartSyncThen(r))
    /\ \A r \in Reqs : WF_vars(StartGotLastSeens(r))
    /\ \A r \in Reqs : WF_vars(StartGotSchema(r))

LiveSpec == Init /\ [][Next]_vars /\ Fairness

\* The same with fewer calls of createSyncedDB_Exclusive.
FewNext ==
    \/ \E c \in Contexts, n \in Names : CreateExclusiveFew(c, n)
    \/ \E r \in Reqs : Grant(r)
    \/ \E r \in Reqs : ConstructDone(r)
    \/ \E r \in Reqs : StartSyncThen(r)
    \/ \E r \in Reqs : StartGotLastSeens(r)
    \/ \E r \in Reqs : StartGotSchema(r)
    \/ \E r \in Reqs : Stop(r)
    \/ \E c \in Contexts : Die(c)

FewLiveSpec == Init /\ [][FewNext]_vars /\ Fairness

\* The coordinator used with one call per name in every context, with a database
\* handle and a transport provider that may fail.
SoloFaultNext ==
    \/ \E c \in Contexts, n \in Names : CreateExclusiveOnce(c, n)
    \/ \E r \in Reqs : Grant(r)
    \/ \E r \in Reqs : ConstructDone(r)
    \/ \E r \in Reqs : ConstructFails(r)
    \/ \E r \in Reqs : StartSyncThen(r)
    \/ \E r \in Reqs : StartGotLastSeens(r)
    \/ \E r \in Reqs : StartGotSchema(r)
    \/ \E r \in Reqs : StartFails(r)
    \/ \E r \in Reqs : Stop(r)
    \/ \E c \in Contexts : Die(c)

SoloFaultSpec == Init /\ [][SoloFaultNext]_vars

\* Callers of createSyncedDB_Exclusive (any number of calls per context) and of
\* createSyncedDB, with a database handle and a transport provider that may fail.
CallerFaultNext ==
    \/ \E c \in Contexts, n \in Names : CreateExclusive(c, n)
    \/ \E c \in Contexts, n \in Names : CreateDirect(c, n)
    \/ \E r \in Reqs : Grant(r)
    \/ \E r \in Reqs : ConstructDone(r)
    \/ \E r \in Reqs : ConstructFails(r)
    \/ \E r \in Reqs : StartSyncThen(r)
    \/ \E r \in Reqs : DirectStart(r)
    \/ \E r \in Reqs : DirectStop(r)
    \/ \E r \in Reqs : StartGotLastSeens(r)
    \/ \E r \in Reqs : StartGotSchema(r)
    \/ \E r \in Reqs : StartFails(r)
    \/ \E r \in Reqs : Stop(r)
    \/ \E c \in Contexts : Die(c)

CallerFaultSpec == Init /\ [][CallerFaultNext]_vars

\* A session created with createSyncedDB and started by its caller, and the batches
\* its transport hands to its InboundStream.
InboundNext ==
    \/ \E c \in Contexts, n \in Names : CreateDirect(c, n)
    \/ \E r \in Reqs : ConstructDone(r)
    \/ \E r \in Reqs : DirectStartFew(r)
    \/ \E r \in Reqs : StartGotLastSeens(r)
    \/ \E r \in Reqs : StartGotSchema(r)
    \/ \E r \in Reqs, p \in Peers, from \in ChangeVersions, to \in ChangeVersions,
          ok \in BOOLEAN : InReceiveChanges(r, p, from, to, ok)

InboundSpec == Init /\ [][InboundNext]_vars

\* One OutboundStream and the requests the transport hands to it.
OutboundNext ==
    \/ \E v \in ChangeVersions : OutStartStreaming(v)
    \/ \E size \in ChangeVersions : OutSendBatch(size)
    \/ \E v \in ChangeVersions : OutResetStream(v)
    \/ OutStop

OutboundSpec == Init /\ [][OutboundNext]_vars

\* ------------------------------------------------------------------ claims

\* A session is running from the call of start() until SyncedDB.stop() has stopped
\* the outbound stream and closed the transport, or its context has died.
Running(r) ==
    /\ startPc[r] # <<>>
    /\ Alive(r)
    /\ ~(OutboundStopped(r) /\ Closed(r))

\* C1: for one database name, the sessions that are running at the same time all
\* belong to one execution context.
C1_OneRunningContext ==
    \A r1 \in Reqs, r2 \in Reqs :
        (Running(r1) /\ Running(r2) /\ rname[r1] = rname[r2]) => rctx[r1] = rctx[r2]

\* A request that waits for the lock in a live context and was not stopped.
LiveWaiter(w) == phase[w] = "waiting" /\ Alive(w) /\ ~stopRequested[w]

\* The lock of w's name is with another request of a live context that was not
\* withdrawn before its grant.
OtherHolds(w) ==
    \E o \in Reqs \ {w} :
        /\ holder[rname[w]] = o
        /\ Alive(o)
        /\ ~withdrawn[o]

\* w's wait is over: its session was started, or it left the scenario (stopped, its
\* context died), or the lock went to a third request.
Handed(w, a) ==
    \/ startPc[w] # <<>>
    \/ stopRequested[w]
    \/ ~Alive(w)
    \/ \E o \in Reqs \ {w, a} : holder[rname[w]] = o /\ Alive(o)

\* C2: when stop() was called on the controller of a request a that got the lock and
\* whose session was started, a request b of another context that waits for the same
\* name and is not stopped is eventually granted the lock and its start() is called.
C2_StopHandsOver ==
    \A a \in Reqs, b \in Reqs :
        ( /\ phase[a] \in {"holding", "released"}
          /\ startPc[a] # <<>>
          /\ stopRequested[a]
          /\ Alive(a)
          /\ LiveWaiter(b)
          /\ rname[b] = rname[a]
          /\ rctx[b] # rctx[a] ) ~> Handed(b, a)

\* The request h had the lock when its context died.
DiedHolding(h) == phase[h] = "holding" /\ ~Alive(h)

\* After the holder of its name died, w is still owed its turn: it is alive and
\* not stopped, it waits or was granted the lock, start() was not called on its
\* session yet, and the lock is not with another live request.
Stranded(w) ==
    /\ phase[w] \in {"waiting", "holding", "released"}
    /\ Alive(w)
    /\ ~stopRequested[w]
    /\ startPc[w] = <<>>
    /\ \E h \in Reqs : DiedHolding(h) /\ rname[h] = rname[w]
    /\ ~OtherHolds(w)

\* C3: the lock of a name is never with a request of a dead context, and when the
\* holder's context died (without a stop() that released the lock), the waiting
\* requests of live contexts are eventually granted and their sessions started
\* (unless they are stopped, die, or the lock is with another live request):
\* nothing of the dead context is needed.
C3_DeathHandsOver ==
    /\ [](\A n \in Names : holder[n] # NoReq => Alive(holder[n]))
    /\ (\E w \in Reqs : Stranded(w)) ~> ~(\E w \in Reqs : Stranded(w))

\* C3 witness: h died holding; w of the other context now holds the
\* lock and its start() has run to the end.
C3_Witness ==
    \E h \in Reqs, w \in Reqs :
        /\ DiedHolding(h)
        /\ rname[w] = rname[h]
        /\ phase[w] = "holding"
        /\ holder[rname[w]] = w
        /\ startPc[w] = <<"done">>

\* C4: a request whose controller's stop() was called while it waited for the lock
\* never gets a session: createSyncedDB is not called for it, start() is not called
\* and nothing is announced, in every later state.
C4_WithdrawnNeverStarts ==
    \A r \in Reqs :
        withdrawn[r] =>
            /\ phase[r] \in {"waiting", "skipped"}
            /\ sess[r] = "none"
            /\ ~wired[r]
            /\ startPc[r] = <<>>
            /\ calls[r] = <<>>
            /\ announced[r] = <<>>

\* C4 witness: a withdrawn request was granted the lock and its callback returned.
C4_Witness ==
    \E r \in Reqs : withdrawn[r] /\ phase[r] = "skipped" /\ holder[rname[r]] = NoReq

\* C5: once the controller's stop() was called on a request whose session was
\* started, the session is stopped: outbound stream stopped and transport closed.
C5_StopStopsSession ==
    \A r \in Reqs :
        (startPc[r] # <<>> /\ stopRequested[r] /\ Alive(r))
            => (OutboundStopped(r) /\ Closed(r))

\* w waits, alive and not stopped, for a name for which another request was
\* withdrawn before its grant, and the lock is not with another live request that
\* was not withdrawn.
BehindWithdrawn(w) ==
    /\ LiveWaiter(w)
    /\ \E r \in Reqs \ {w} : withdrawn[r] /\ rname[r] = rname[w]
    /\ ~OtherHolds(w)

\* C6: a request withdrawn before its grant never holds the lock, before or after
\* its grant, so the unstopped waiters of live contexts for the same name eventually
\* leave the queue (unless the lock is with another live request that was not
\* withdrawn).
C6_WithdrawnLeaksNoSlot ==
    /\ [](\A r \in Reqs : withdrawn[r] => holder[rname[r]] # r)
    /\ (\E w \in Reqs : BehindWithdrawn(w)) ~> ~(\E w \in Reqs : BehindWithdrawn(w))

\* C6 witness: the withdrawn request r had its grant, and a waiter w was granted the
\* lock after it and runs its session.
C6_Witness ==
    \E r \in Reqs, w \in Reqs :
        /\ withdrawn[r]
        /\ phase[r] = "skipped"
        /\ rname[w] = rname[r]
        /\ phase[w] = "holding"
        /\ holder[rname[w]] = w
        /\ startPc[w] = <<"done">>

\* The calls of start() on r's session that ran to the end.
DoneStarts(r) == {i \in DOMAIN startPc[r] : startPc[r][i] = "done"}

\* How often the call named c is among the first k calls a session made.
CallCount(r, c, k) == Cardinality({j \in 1..k : calls[r][j] = c})

\* C7: every call of start() that ran to the end has read the frontier, then the
\* schema identity, then called prepare with the frontier it read and then sent
\* exactly one announcement, with that same frontier, the schema identity it read and
\* the site id of the database: in the order of a session's calls no call runs ahead
\* of the one before it in this sequence, every announcePresence follows its
\* prepare at once, and the completed calls of start() match the announcements one
\* to one.
C7_StartSequence ==
    \A r \in Reqs :
        /\ \A k \in 0..Len(calls[r]) :
              /\ CallCount(r, "getSchemaNameAndVersion", k) <= CallCount(r, "getLastSeens", k)
              /\ CallCount(r, "prepare", k) <= CallCount(r, "getSchemaNameAndVersion", k)
              /\ CallCount(r, "announcePresence", k) <= CallCount(r, "prepare", k)
        /\ \A k \in 1..Len(calls[r]) :
              calls[r][k] = "prepare" =>
                  (k < Len(calls[r]) /\ calls[r][k + 1] = "announcePresence")
        /\ Len(prepared[r]) = Cardinality(DoneStarts(r))
        /\ Len(announced[r]) = Cardinality(DoneStarts(r))
        /\ \A k \in 1..Len(announced[r]) :
              /\ announced[r][k].tag = "AnnouncePresence"
              /\ announced[r][k].lastSeens = prepared[r][k]
              /\ announced[r][k].schemaName = SchemaNameOf(rname[r])
              /\ announced[r][k].sender = SiteIdOf(rname[r])
        /\ \E f \in [DoneStarts(r) -> 1..Len(announced[r])] :
              /\ \A i \in DoneStarts(r), j \in DoneStarts(r) : f[i] = f[j] => i = j
              /\ \A i \in DoneStarts(r) :
                    /\ prepared[r][f[i]] = lastSeens[r][i]
                    /\ announced[r][f[i]].schemaVersion = schemaRead[r][i]

\* C7 witness: two calls of start() on one session ran to the end with different
\* frontiers, the second after the database moved past the frontier and the
\* schema version it had read.
C7_Witness ==
    \E r \in Reqs :
        /\ Len(startPc[r]) >= 2
        /\ startPc[r][1] = "done"
        /\ startPc[r][2] = "done"
        /\ lastSeens[r][1] # lastSeens[r][2]
        /\ lastSeens[r][2] # dbLastSeens[rname[r]]
        /\ schemaRead[r][2] # dbSchema[rname[r]]

\* C8: as long as prepare was not called, the transport's slots do not lead to the
\* streams, and no change batch and no start-streaming or reset request has reached
\* them.
C8_NoTrafficBeforePrepare ==
    \A r \in Reqs :
        prepared[r] = <<>> => (~wired[r] /\ batchesIn[r] = 0 /\ streamReqs[r] = 0)

\* C9: every stop() of a session returns true, and however often stop() was called,
\* OutboundStream.stop() and Transport.close() took effect once.
C9_StopIdempotent ==
    \A r \in Reqs :
        stopReturned[r] # <<>> =>
            /\ \A i \in 1..Len(stopReturned[r]) : stopReturned[r][i] = TRUE
            /\ outStopCalls[r] = 1
            /\ closeCalls[r] = 1

\* C10: once stop() has returned (the transport is closed), the session calls
\* neither prepare nor announcePresence any more.
C10_NoWorkAfterStop ==
    [][\A r \in Reqs :
          Closed(r) => (prepared'[r] = prepared[r] /\ announced'[r] = announced[r])]_vars

\* part_001:58-65,74-114  the promise the call returned to its caller is resolved.
\* createSyncedDB resolves with the SyncedDB after `await config.dbProvider` and the
\* construction; createSyncedDB_Exclusive has no await: it resolves with the
\* controller as soon as the lock was requested.
PromiseResolved(r) ==
    IF phase[r] = "direct"
      THEN sess[r] = "constructed"
      ELSE phase[r] \in {"waiting", "holding", "released", "skipped"}

\* C11: the promise returned by createSyncedDB or createSyncedDB_Exclusive is
\* resolved only when the database handle and the transport of the request are
\* constructed.
C11_ResolvesAfterConstruction ==
    \A r \in Reqs : (Alive(r) /\ PromiseResolved(r)) => sess[r] = "constructed"

\* C12: when construction or start() of a request's session failed (dbProvider,
\* getLastSeens or getSchemaNameAndVersion rejected), the rejection reached the
\* caller that requested the session.
C12_FailureSurfaced ==
    \A r \in Reqs :
        (sess[r] = "failed" \/ \E i \in DOMAIN startPc[r] : startPc[r][i] = "failed")
            => rejection[r] = "caller"

\* No request holds the lock of n and none is queued for it.
NoHolderNoWaiter(n) ==
    /\ holder[n] = NoReq
    /\ ~\E r \in Reqs : phase[r] = "waiting" /\ Alive(r) /\ rname[r] = n

\* C13: whenever a name has no holder and no waiter, no context's locks map has an
\* entry for it.
C13_RecordRemoved ==
    \A n \in Names : NoHolderNoWaiter(n) => \A c \in Contexts : locks[c][n] = NoReq

\* C14: for every session and every peer P, the frontier the session's InboundStream
\* keeps for P is the final version of the last batch of P the database handle
\* confirmed to it; no step lowers a frontier of a session whose context lives, and a
\* receiveChanges whose batch the database handle rejects leaves every frontier as it
\* was.
C14_FrontierIsLastApplied ==
    /\ [](\A r \in Reqs, p \in Peers :
            confirmed[r][p] > 0 => frontier[r][p] = confirmed[r][p])
    /\ [][\A r \in Reqs, p \in Peers :
            (rctx[r] # NoCtx /\ alive'[rctx[r]]) => frontier'[r][p] >= frontier[r][p]]_vars
    /\ [][(received' = received + 1 /\ ~lastBatch'.ok) => frontier' = frontier]_vars

\* C15: a receiveChanges with a batch of peer P that starts beyond P's frontier plus
\* one applies nothing to the database handle, leaves the frontiers as they were and
\* sends P a request to resend from the recorded frontier.
C15_GapNotApplied ==
    [][(/\ received' = received + 1
        /\ lastBatch'.from > frontier[lastBatch'.req][lastBatch'.peer] + 1) =>
          /\ dbHas' = dbHas
          /\ dbLastSeens' = dbLastSeens
          /\ confirmed' = confirmed
          /\ frontier' = frontier
          /\ resendReqs' = [resendReqs EXCEPT ![lastBatch'.req] =
                 Append(@, [peer |-> lastBatch'.peer,
                            since |-> frontier[lastBatch'.req][lastBatch'.peer]])]]_vars

\* C15 witness: the last batch started beyond the frontier (which had advanced
\* before), and the resend request for it is the last one the session sent.
C15_Witness ==
    /\ lastBatch.req \in Reqs
    /\ lastBatch.peer \in Peers
    /\ frontier[lastBatch.req][lastBatch.peer] > 0
    /\ lastBatch.from > frontier[lastBatch.req][lastBatch.peer] + 1
    /\ lastBatch.ok
    /\ resendReqs[lastBatch.req] # <<>>
    /\ resendReqs[lastBatch.req][Len(resendReqs[lastBatch.req])] =
          [peer |-> lastBatch.peer, since |-> frontier[lastBatch.req][lastBatch.peer]]

\* C16: after a resetStream(newFromVersion), the first batch sent starts at
\* newFromVersion, whatever position the stream had reached, and every later batch
\* starts right after the end of the batch before it.
C16_ResetResumesAt ==
    resetMark # NoReset =>
        \A i \in (resetMark.at + 1)..Len(outSent) :
            /\ outSent[i].from <= outSent[i].to
            /\ outSent[i].from =
                  IF i = resetMark.at + 1 THEN resetMark.to ELSE outSent[i - 1].to + 1

\* C16 witness: a reset went back behind the end of a batch already sent, and two
\* batches were sent after it.
C16_Witness ==
    /\ resetMark # NoReset
    /\ resetMark.at >= 1
    /\ resetMark.to <= outSent[resetMark.at].to
    /\ Len(outSent) >= resetMark.at + 2

\* The request was granted the lock, startSync's cb has not run for it yet
\* (createSyncedDB has not resolved, or its then-callback is still queued), and its
\* controller's stop() was called.
StoppedBeforeCb(r) ==
    /\ phase[r] \in {"holding", "released"}
    /\ sess[r] \in {"dbProvider", "constructed"}
    /\ startCb[r] = "none"
    /\ stopRequested[r]

\* C17: when stop() was called after the grant and before cb ran (so also before
\* createSyncedDB resolved), no step calls start() for the request, and cb, when it
\* runs, returns false; and a session whose cb returned false is never started and
\* announces nothing.
C17_StopInConstructionNeverStarts ==
    /\ [][\A r \in Reqs :
            StoppedBeforeCb(r) =>
                /\ startPc'[r] = <<>>
                /\ startCb'[r] \in {"none", "false"}]_vars
    /\ [](\A r \in Reqs :
            startCb[r] = "false" =>
                (startPc[r] = <<>> /\ calls[r] = <<>> /\ announced[r] = <<>>))

\* C17 witness: stop() came after the grant, createSyncedDB then resolved and cb
\* returned false.
C17_Witness ==
    \E r \in Reqs :
        /\ ~withdrawn[r]
        /\ stopRequested[r]
        /\ phase[r] = "released"
        /\ sess[r] = "constructed"
        /\ startCb[r] = "false"

\* C18: the hold promise of a call is resolved exactly when stop() was called on the
\* controller that call returned: no other controller's stop() resolves it, and its
\* own stop() does.
C18_StopResolvesOwnHold ==
    \A r \in Reqs : Alive(r) => (holdResolved[r] <=> stopRequested[r])

\* No context has made two createSyncedDB_Exclusive calls for the same name.
OnePerContext ==
    \A q1 \in Reqs, q2 \in Reqs :
        (q1 # q2 /\ rctx[q1] # NoCtx /\ rctx[q1] = rctx[q2]) => rname[q1] # rname[q2]

\* C19: with at most one request per name per context, a request that was granted
\* the lock while stopRequested was false has the lock as long as its controller's
\* stop() was not called and its context lives, whatever became of createSyncedDB
\* and start() (pending, completed or failed).
C19_LockKeptUntilStop ==
    OnePerContext =>
        \A r \in Reqs :
            (phase[r] \in {"holding", "released"} /\ Alive(r) /\ ~stopRequested[r])
                => (phase[r] = "holding" /\ holder[rname[r]] = r)

\* C19 witness: one request per context; r's session was constructed and its start()
\* failed, r still has the lock and the request of the other context waits.
C19_Witness ==
    /\ OnePerContext
    /\ \E r \in Reqs, w \in Reqs :
          /\ phase[r] = "holding"
          /\ holder[rname[r]] = r
          /\ sess[r] = "constructed"
          /\ startPc[r] = <<"failed">>
          /\ ~stopRequested[r]
          /\ rname[w] = rname[r]
          /\ rctx[w] # rctx[r]
          /\ LiveWaiter(w)

\* C20: for a request of createSyncedDB_Exclusive, createSyncedDB is not entered
\* again once it has resolved or failed (at most one SyncedDB), start() is called
\* at most once, and the step that calls start() is taken by a request that has the
\* lock.
C20_OneSessionUnderLock ==
    /\ [][\A r \in Reqs :
            (phase[r] # "direct" /\ sess[r] \in {"constructed", "failed"} /\ Alive(r))
                => sess'[r] # "dbProvider"]_vars
    /\ [](\A r \in Reqs : phase[r] # "direct" => Len(startPc[r]) <= 1)
    /\ [][\A r \in Reqs :
            (phase[r] \in {"holding", "released"} /\ startPc[r] = <<>>
               /\ startPc'[r] # <<>>)
                => (phase'[r] = "holding" /\ holder'[rname[r]] = r)]_vars
====
